---- MODULE Spec2Model ----
(***************************************************************************)
(* Model of scripts/export_tableau_tables.py: main() loads one table of    *)
(* job postings and writes twelve derived tables, one after the other.     *)
(*                                                                         *)
(* Representation.                                                         *)
(*  - A skill column "skill_<id>" is represented by <id>; skill_cols is    *)
(*    the list of ids in the column order of the input file.               *)
(*  - A float share is an exact fraction [n, d]; d = 0 is NaN (0/0).       *)
(*  - A table whose row order no statement depends on and which pandas     *)
(*    orders by value_counts() is a set of rows; every other table is a    *)
(*    sequence of rows.                                                    *)
(*  - sort_values() is called with the default kind ("quicksort"), which   *)
(*    is not stable: the model allows every order of the rows that is      *)
(*    sorted by the key.                                                   *)
(***************************************************************************)
EXTENDS Integers, Sequences, FiniteSets, TLC

VARIABLES input, pc, skill_cols, skills_count, n_total, out, written, disk

vars == <<input, pc, skill_cols, skills_count, n_total, out, written, disk>>

(***************************************************************************)
(* Bounds and input domains                                                *)
(***************************************************************************)
MaxRows == 2

Countries == {"DE", "US"}

Groups == {"junior", "mid_plus"}

\* The orders in which groupby() returns its keys (sorted strings).
SortedCountries == <<"DE", "US">>

SortedGroups == <<"junior", "mid_plus">>

\* The skill columns of the input files considered, in column order.
\* "jira" is a skill of no category.
SkillSchemas == {<<>>, <<"jira">>, <<"sql", "python">>, <<"python", "excel">>}

Absent == "-"

(***************************************************************************)
(* Program constants                                                       *)
(***************************************************************************)
Tables ==
  <<"fact_job_postings", "agg_country", "agg_experience", "agg_remote",
    "agg_top_skills", "agg_skills_by_country", "agg_skills_by_experience",
    "agg_skills_gap", "agg_skill_categories",
    "agg_skill_categories_by_experience", "agg_skills_count_dist",
    "agg_skills_count_by_experience">>

SKILL_CATEGORIES ==
  ("Programming" :> <<"sql", "python", "r">>)
  @@ ("Spreadsheets" :> <<"excel", "google_sheets">>)
  @@ ("Databases" :>
        <<"postgresql", "mysql", "oracle", "sql_server", "bigquery",
          "snowflake", "redshift", "vertica", "clickhouse", "databricks",
          "synapse">>)
  @@ ("Visualisation & BI Tools" :>
        <<"dashboards", "data_visualization", "power_bi", "tableau",
          "looker", "qlik", "datalens", "superset">>)
  @@ ("Data Engineering" :>
        <<"airflow", "hadoop", "spark", "kafka", "dbt", "talend",
          "informatica", "etl", "data_pipeline">>)
  @@ ("AI/ML Tools" :> <<"chatgpt", "claude", "cursor", "copilot", "gemini">>)
  @@ ("Statistics" :>
        <<"statistics", "a_b_testing", "experimentation",
          "hypothesis_testing", "data_cleaning">>)

\* Iteration order of SKILL_CATEGORIES.items().
CategoryOrder ==
  <<"Programming", "Spreadsheets", "Databases", "Visualisation & BI Tools",
    "Data Engineering", "AI/ML Tools", "Statistics">>

\* The columns the fact projection asks for, besides the skill columns.
fact_cols ==
  <<"id", "title", "country_name", "country_code", "experience_group",
    "is_remote", "is_full_time", "is_part_time", "is_contractor",
    "is_internship", "skills_count", "posted_at_datetime_utc">>

(***************************************************************************)
(* Helpers                                                                 *)
(***************************************************************************)
Range(s) == {s[i] : i \in 1..Len(s)}

IndexOf(s, x) == CHOOSE i \in 1..Len(s) : s[i] = x

RECURSIVE SumSeq(_)
SumSeq(s) == IF s = <<>> THEN 0 ELSE Head(s) + SumSeq(Tail(s))

RECURSIVE Concat(_)
Concat(ss) == IF ss = <<>> THEN <<>> ELSE Head(ss) \o Concat(Tail(ss))

RECURSIVE Ascending(_)
Ascending(S) ==
  IF S = {} THEN <<>>
  ELSE LET m == CHOOSE x \in S : \A y \in S : x <= y
       IN <<m>> \o Ascending(S \ {m})

Perms(n) == {p \in [1..n -> 1..n] : \A i, j \in 1..n : p[i] = p[j] => i = j}

Abs(x) == IF x < 0 THEN -x ELSE x

\* Fractions: [n, d] stands for n / d, and for NaN when d = 0.
Rat(n, d) == [n |-> n, d |-> d]

IsNaN(r) == r.d = 0

RatEq(a, b) == a.n * b.d = b.n * a.d

RatGeq(a, b) == a.n * b.d >= b.n * a.d

RatSub(a, b) == Rat(a.n * b.d - b.n * a.d, a.d * b.d)

RatAdd(a, b) == Rat(a.n * b.d + b.n * a.d, a.d * b.d)

RatAbs(a) == Rat(Abs(a.n), a.d)

\* count / total * 100
Percent(count, total) == Rat(count * 100, total)

\* The rows of s in every order that is sorted (an unstable sort), where
\* before[i][j] says that row i may come right before row j.
SortedBy(s, before) ==
  {[i \in 1..Len(s) |-> s[p[i]]] :
     p \in {q \in Perms(Len(s)) :
              \A i \in 1..(Len(s) - 1) : before[q[i]][q[i + 1]]}}

\* before[i][j] for the rows of s, from a comparison of two rows.
Order(s, Geq(_, _)) ==
  [i \in 1..Len(s) |-> [j \in 1..Len(s) |-> Geq(s[i], s[j])]]

(***************************************************************************)
(* The loaded table df and its columns                                     *)
(***************************************************************************)
df == input.rows

\* Mutant of Has: every column is taken to be there.
Has_any(c) == TRUE

\* c in df.columns, for a column that is no skill column; skills_count is
\* added to df before the first table is computed.
Has(c) == c \in input.columns \/ c = "skills_count"

Rows == 1..Len(df)

\* The rows of I whose flag skill_<c> is true.
Flagged(c, I) == {i \in I : df[i].flags[c]}

\* Mutant of RowSum: any() in place of sum().
RowSum_any(row, cols) ==
  IF \E k \in 1..Len(cols) : row.flags[cols[k]] THEN 1 ELSE 0

\* df[cols].sum(axis=1) for one row
RowSum(row, cols) == Cardinality({k \in 1..Len(cols) : row.flags[cols[k]]})

\* df[cols].max(axis=1): the rows of I with at least one flag of cols true
Mentioned(cols, I) == {i \in I : \E k \in 1..Len(cols) : df[i].flags[cols[k]]}

\* The rows of each value of a column, and the values present, sorted.
InCountry(c) == {i \in Rows : df[i].country_name = c}

InGroup(g) == {i \in Rows : df[i].experience_group = g}

CountriesPresent == SelectSeq(SortedCountries, LAMBDA c : InCountry(c) # {})

GroupsPresent == SelectSeq(SortedGroups, LAMBDA g : InGroup(g) # {})

(***************************************************************************)
(* The twelve tables                                                       *)
(***************************************************************************)
\* 1. df[fact_cols].copy(), fact_cols filtered to the columns of df: one row
\* per posting, in the order of df. The columns with modelled values are
\* kept as fields; "row" is the position of the posting in the input.
fact_job_postings ==
  [columns |-> SelectSeq(fact_cols, Has),
   rows |-> [i \in Rows |->
              [row |-> i,
               country_name |-> df[i].country_name,
               experience_group |-> df[i].experience_group,
               is_remote |-> df[i].is_remote,
               skills_count |-> skills_count[i]]]]

\* Series.value_counts(): one row per distinct value, with its frequency.
value_counts(vals) ==
  {[value |-> v, count |-> Cardinality({i \in DOMAIN vals : vals[i] = v})] :
     v \in Range(vals)}

\* agg["count"].sum()
RECURSIVE CountSum(_)
CountSum(S) ==
  IF S = {} THEN 0
  ELSE LET r == CHOOSE x \in S : TRUE IN r.count + CountSum(S \ {r})

\* Mutant of Distribution: share = count / len(agg) * 100.
Distribution_rows(vals) ==
  LET vc == value_counts(vals)
  IN {[value |-> r.value, count |-> r.count,
       share |-> Percent(r.count, Cardinality(vc))] : r \in vc}

\* 2-4. value_counts() with share = count / count.sum() * 100
Distribution(vals) ==
  LET vc == value_counts(vals)
  IN {[value |-> r.value, count |-> r.count,
       share |-> Percent(r.count, CountSum(vc))] : r \in vc}

agg_country == Distribution([i \in Rows |-> df[i].country_name])

agg_experience == Distribution([i \in Rows |-> df[i].experience_group])

agg_remote == Distribution([i \in Rows |-> df[i].is_remote])

\* 5. df[skill_cols].agg(["sum", "mean"]).T, share = mean * 100, before the
\* sort: one row per skill column, in column order. The mean of an empty
\* column is NaN.
top_skills ==
  [k \in 1..Len(skill_cols) |->
     [skill_name |-> skill_cols[k],
      count |-> Cardinality(Flagged(skill_cols[k], Rows)),
      share |-> Percent(Cardinality(Flagged(skill_cols[k], Rows)), Len(df))]]

\* Mutant of agg_top_skills: the sort is ascending.
agg_top_skills_ascending ==
  SortedBy(top_skills, Order(top_skills, LAMBDA a, b : a.count <= b.count))

\* sort_values("count", ascending=False)
agg_top_skills ==
  SortedBy(top_skills, Order(top_skills, LAMBDA a, b : a.count >= b.count))

\* 6. groupby("country_name")[skill_cols].sum().T, melted: for every country
\* (sorted), every skill column (in column order).
country_totals(c) == Cardinality(InCountry(c))

\* Mutant of skills_by_country_long: the pairs with count 0 are left out.
skills_by_country_nonzero ==
  SelectSeq(
    Concat([j \in 1..Len(CountriesPresent) |->
      [k \in 1..Len(skill_cols) |->
        LET c == CountriesPresent[j]
            count == Cardinality(Flagged(skill_cols[k], InCountry(c)))
        IN [skill_name |-> skill_cols[k],
            country_name |-> c,
            count |-> count,
            share |-> Percent(count, country_totals(c))]]]),
    LAMBDA r : r.count > 0)

skills_by_country_long ==
  Concat([j \in 1..Len(CountriesPresent) |->
    [k \in 1..Len(skill_cols) |->
      LET c == CountriesPresent[j]
          count == Cardinality(Flagged(skill_cols[k], InCountry(c)))
      IN [skill_name |-> skill_cols[k],
          country_name |-> c,
          count |-> count,
          share |-> IF country_totals(c) > 0
                    THEN Percent(count, country_totals(c))
                    ELSE Rat(0, 1)]]])

\* 7. groupby("experience_group")[skill_cols].mean() * 100, transposed: one
\* row per skill column, one share per group present.
skills_by_exp ==
  [k \in 1..Len(skill_cols) |->
     [skill_name |-> skill_cols[k],
      share |-> [g \in Range(GroupsPresent) |->
                  Percent(Cardinality(Flagged(skill_cols[k], InGroup(g))),
                          Cardinality(InGroup(g)))]]]

skills_by_exp_long ==
  Concat([j \in 1..Len(GroupsPresent) |->
    [k \in 1..Len(skill_cols) |->
      [skill_name |-> skill_cols[k],
       experience_group |-> GroupsPresent[j],
       share |-> skills_by_exp[k].share[GroupsPresent[j]]]]])

\* 8. gap = mid_plus - junior per row of skills_by_exp, before the sort.
gap_df ==
  [k \in 1..Len(skill_cols) |->
     [skill_name |-> skill_cols[k],
      junior_share |-> skills_by_exp[k].share["junior"],
      mid_plus_share |-> skills_by_exp[k].share["mid_plus"],
      gap |-> RatSub(skills_by_exp[k].share["mid_plus"],
                     skills_by_exp[k].share["junior"])]]

\* Mutant of agg_skills_gap: the sort is by the signed gap (no key=abs).
agg_skills_gap_signed ==
  SortedBy(gap_df, Order(gap_df, LAMBDA a, b : RatGeq(a.gap, b.gap)))

\* sort_values("gap", key=abs, ascending=False)
agg_skills_gap ==
  SortedBy(gap_df,
           Order(gap_df, LAMBDA a, b : RatGeq(RatAbs(a.gap), RatAbs(b.gap))))

\* 9. cols = [f"skill_{s}" for s in skills if f"skill_{s}" in df.columns]
category_cols(category) ==
  SelectSeq(SKILL_CATEGORIES[category], LAMBDA s : s \in Range(skill_cols))

\* The categories with at least one member column, in dictionary order.
CategoriesPresent ==
  SelectSeq(CategoryOrder, LAMBDA c : category_cols(c) # <<>>)

\* Mutant of category_rows: the member flags are summed (sum(axis=1)).
category_rows_sum ==
  [j \in 1..Len(CategoriesPresent) |->
     LET cols == category_cols(CategoriesPresent[j])
         total == SumSeq([k \in 1..Len(cols) |->
                           Cardinality(Flagged(cols[k], Rows))])
     IN [skill_category |-> CategoriesPresent[j],
         share |-> Percent(total, Len(df)),
         count |-> total]]

\* category_share and category_count, before the sort.
category_rows ==
  [j \in 1..Len(CategoriesPresent) |->
     LET mentioned == Mentioned(category_cols(CategoriesPresent[j]), Rows)
     IN [skill_category |-> CategoriesPresent[j],
         share |-> Percent(Cardinality(mentioned), Len(df)),
         count |-> Cardinality(mentioned)]]

\* pd.Series(category_share).sort_values(ascending=False)
agg_categories ==
  SortedBy(category_rows,
           Order(category_rows, LAMBDA a, b : RatGeq(a.share, b.share)))

\* Series.unique(): the distinct values in order of first appearance.
RECURSIVE unique(_)
unique(vals) ==
  IF vals = <<>> THEN <<>>
  ELSE LET front == unique(SubSeq(vals, 1, Len(vals) - 1))
           last == vals[Len(vals)]
       IN IF last \in Range(front) THEN front ELSE Append(front, last)

\* 10. one record per group (in order of first appearance) and category
\* with a member column.
agg_cat_exp ==
  LET groups == unique([i \in Rows |-> df[i].experience_group])
  IN Concat([j \in 1..Len(groups) |->
       [k \in 1..Len(CategoriesPresent) |->
          [experience_group |-> groups[j],
           skill_category |-> CategoriesPresent[k],
           share |-> Percent(
             Cardinality(Mentioned(category_cols(CategoriesPresent[k]),
                                   InGroup(groups[j]))),
             Cardinality(InGroup(groups[j])))]]])

\* 11. value_counts().sort_index() of skills_count, share = count / n_total
skills_count_dist ==
  LET values == Ascending(Range(skills_count))
  IN [j \in 1..Len(values) |->
       LET count == Cardinality({i \in Rows : skills_count[i] = values[j]})
       IN [skills_count |-> values[j],
           count |-> count,
           share |-> Percent(count, n_total)]]

\* The values of skills_count in the rows I, ascending.
SortedCounts(I) ==
  LET idx == Ascending(I)
      vals == [j \in 1..Len(idx) |-> skills_count[idx[j]]]
  IN CHOOSE t \in SortedBy(vals, Order(vals, LAMBDA a, b : a <= b)) : TRUE

median(s) ==
  IF Len(s) % 2 = 1
  THEN Rat(s[(Len(s) + 1) \div 2], 1)
  ELSE Rat(s[Len(s) \div 2] + s[Len(s) \div 2 + 1], 2)

\* 12. groupby("experience_group")["skills_count"].agg(count, mean, median,
\* min, max): one row per group present, sorted by group.
skills_count_by_exp ==
  [j \in 1..Len(GroupsPresent) |->
     LET s == SortedCounts(InGroup(GroupsPresent[j]))
     IN [experience_group |-> GroupsPresent[j],
         count |-> Len(s),
         mean |-> Rat(SumSeq(s), Len(s)),
         median |-> median(s),
         min |-> s[1],
         max |-> s[Len(s)]]]

(***************************************************************************)
(* Initial states: the input file and the output directory                 *)
(***************************************************************************)
\* The columns of a well-formed input file, besides the skill columns.
AllColumns ==
  {"id", "title", "country_name", "country_code", "experience_group",
   "is_remote", "is_full_time", "is_part_time", "is_contractor",
   "is_internship", "posted_at_datetime_utc"}

\* The postings of a file with the given columns; the value of a column the
\* file does not have is Absent.
Postings(columns, skills) ==
  [country_name : IF "country_name" \in columns THEN Countries ELSE {Absent},
   experience_group :
     IF "experience_group" \in columns THEN Groups ELSE {Absent},
   is_remote : IF "is_remote" \in columns THEN BOOLEAN ELSE {Absent},
   flags : [Range(skills) -> BOOLEAN]]

Tablesof(columns, skills) ==
  UNION {[1..n -> Postings(columns, skills)] : n \in 0..MaxRows}

\* disk_full_at = k > 0: the k-th to_csv() fails; 0: no write fails.
Inputs(columns, skills) ==
  [exists : {TRUE}, ts_ok : {TRUE}, dir_ok : {TRUE}, disk_full_at : {0},
   columns : {columns}, skill_columns : {skills},
   rows : Tablesof(columns, skills)]

\* Well-formed files, and an output directory that takes every write.
WellFormed == UNION {Inputs(AllColumns, skills) : skills \in SkillSchemas}

\* One thing wrong: one column missing, no file, a timestamp that does not
\* parse, no output directory, or one write that fails.
FaultSkills == <<"sql">>

Faulty ==
  UNION {Inputs(AllColumns \ {c}, FaultSkills) : c \in AllColumns}
  \cup {[i EXCEPT !.exists = FALSE, !.rows = <<>>, !.columns = {},
                  !.skill_columns = <<>>] :
          i \in Inputs(AllColumns, FaultSkills)}
  \cup {[i EXCEPT !.ts_ok = FALSE] : i \in Inputs(AllColumns, FaultSkills)}
  \cup {[i EXCEPT !.dir_ok = FALSE] : i \in Inputs(AllColumns, FaultSkills)}
  \cup {[i EXCEPT !.disk_full_at = k] :
          i \in Inputs(AllColumns, FaultSkills), k \in 1..Len(Tables)}

NoTable(t) ==
  IF t = "fact_job_postings" THEN [columns |-> <<>>, rows |-> <<>>]
  ELSE IF t \in {"agg_country", "agg_experience", "agg_remote"} THEN {}
  ELSE <<>>

InitWith(inputs) ==
  /\ input \in inputs
  /\ pc = "load"
  /\ skill_cols = <<>>
  /\ skills_count = <<>>
  /\ n_total = 0
  /\ out = [t \in Range(Tables) |-> NoTable(t)]
  /\ written = <<>>
  /\ disk = <<>>

Init == InitWith(WellFormed \cup Faulty)

(***************************************************************************)
(* main(), one action per table                                            *)
(***************************************************************************)
NextPc(t) ==
  IF IndexOf(Tables, t) = Len(Tables) THEN "done"
  ELSE Tables[IndexOf(Tables, t) + 1]

\* An exception leaves main(): nothing more is written.
Raise ==
  /\ pc' = "failed"
  /\ UNCHANGED <<out, written, disk>>

\* Mutant of to_csv: a failing write is ignored and main() goes on.
to_csv_ignored(t, table) ==
  IF input.disk_full_at = IndexOf(Tables, t)
  THEN /\ pc' = NextPc(t)
       /\ UNCHANGED <<out, written, disk>>
  ELSE /\ out' = [out EXCEPT ![t] = table]
       /\ written' = Append(written, t)
       /\ disk' = Append(disk, t)
       /\ pc' = NextPc(t)

\* table.to_csv(OUTPUT_DIR / "<t>.csv"). A write that fails may leave an
\* incomplete file behind.
to_csv(t, table) ==
  IF input.disk_full_at = IndexOf(Tables, t)
  THEN /\ pc' = "failed"
       /\ \E partial \in BOOLEAN :
            disk' = IF partial THEN Append(disk, t) ELSE disk
       /\ UNCHANGED <<out, written>>
  ELSE /\ out' = [out EXCEPT ![t] = table]
       /\ written' = Append(written, t)
       /\ disk' = Append(disk, t)
       /\ pc' = NextPc(t)

\* mkdir, read_csv, to_datetime, skill_cols, skills_count, n_total
Load ==
  /\ pc = "load"
  /\ UNCHANGED input
  /\ IF \/ ~input.dir_ok
        \/ ~input.exists
        \/ ~Has("posted_at_datetime_utc")
        \/ ~input.ts_ok
     THEN Raise /\ UNCHANGED <<skill_cols, skills_count, n_total>>
     ELSE /\ skill_cols' = input.skill_columns
          /\ skills_count' =
               [i \in Rows |-> RowSum(df[i], input.skill_columns)]
          /\ n_total' = Len(df)
          /\ pc' = Tables[1]
          /\ UNCHANGED <<out, written, disk>>

Loaded == UNCHANGED <<input, skill_cols, skills_count, n_total>>

FactJobPostings ==
  /\ pc = "fact_job_postings"
  /\ Loaded
  /\ to_csv("fact_job_postings", fact_job_postings)

AggCountry ==
  /\ pc = "agg_country"
  /\ Loaded
  /\ IF ~Has("country_name") THEN Raise
     ELSE to_csv("agg_country", agg_country)

AggExperience ==
  /\ pc = "agg_experience"
  /\ Loaded
  /\ IF ~Has("experience_group") THEN Raise
     ELSE to_csv("agg_experience", agg_experience)

AggRemote ==
  /\ pc = "agg_remote"
  /\ Loaded
  /\ IF ~Has("is_remote") THEN Raise
     ELSE to_csv("agg_remote", agg_remote)

\* agg() of no column raises ("no results").
AggTopSkills ==
  /\ pc = "agg_top_skills"
  /\ Loaded
  /\ IF skill_cols = <<>> THEN Raise
     ELSE \E t \in agg_top_skills : to_csv("agg_top_skills", t)

\* apply(axis=1) of a frame without rows returns a frame, and whether its
\* assignment to the column "share" raises depends on the pandas version.
AggSkillsByCountry ==
  /\ pc = "agg_skills_by_country"
  /\ Loaded
  /\ IF ~Has("country_name") THEN Raise
     ELSE \E raises \in
               IF skills_by_country_long = <<>> THEN BOOLEAN ELSE {FALSE} :
            IF raises THEN Raise
            ELSE to_csv("agg_skills_by_country", skills_by_country_long)

AggSkillsByExperience ==
  /\ pc = "agg_skills_by_experience"
  /\ Loaded
  /\ IF ~Has("experience_group") THEN Raise
     ELSE to_csv("agg_skills_by_experience", skills_by_exp_long)

\* gap_df["mid_plus"] and gap_df["junior"] are columns only if the group
\* has a posting.
AggSkillsGap ==
  /\ pc = "agg_skills_gap"
  /\ Loaded
  /\ IF ~({"mid_plus", "junior"} \subseteq Range(GroupsPresent)) THEN Raise
     ELSE \E t \in agg_skills_gap : to_csv("agg_skills_gap", t)

AggSkillCategories ==
  /\ pc = "agg_skill_categories"
  /\ Loaded
  /\ \E t \in agg_categories : to_csv("agg_skill_categories", t)

AggSkillCategoriesByExperience ==
  /\ pc = "agg_skill_categories_by_experience"
  /\ Loaded
  /\ IF ~Has("experience_group") THEN Raise
     ELSE to_csv("agg_skill_categories_by_experience", agg_cat_exp)

AggSkillsCountDist ==
  /\ pc = "agg_skills_count_dist"
  /\ Loaded
  /\ to_csv("agg_skills_count_dist", skills_count_dist)

AggSkillsCountByExperience ==
  /\ pc = "agg_skills_count_by_experience"
  /\ Loaded
  /\ IF ~Has("experience_group") THEN Raise
     ELSE to_csv("agg_skills_count_by_experience", skills_count_by_exp)

Next ==
  \/ Load
  \/ FactJobPostings
  \/ AggCountry
  \/ AggExperience
  \/ AggRemote
  \/ AggTopSkills
  \/ AggSkillsByCountry
  \/ AggSkillsByExperience
  \/ AggSkillsGap
  \/ AggSkillCategories
  \/ AggSkillCategoriesByExperience
  \/ AggSkillsCountDist
  \/ AggSkillsCountByExperience

Spec == Init /\ [][Next]_vars

(***************************************************************************)
(* Properties. They are stated over the input file (input.rows,            *)
(* input.columns, input.skill_columns) and the tables on disk (out,        *)
(* written), not over the definitions that compute the tables.             *)
(***************************************************************************)
Done(t) == t \in Range(written)

postings == input.rows

\* The postings that satisfy P.
Matching(P(_)) == {i \in 1..Len(postings) : P(postings[i])}

\* share of `count` in `total`, as the tables must report it
IsShare(r, count, total) == r.d # 0 /\ r.n * total = 100 * count * r.d

RECURSIVE ShareTotal(_)
ShareTotal(S) ==
  IF S = {} THEN Rat(0, 1)
  ELSE LET r == CHOOSE x \in S : TRUE
       IN RatAdd(r.share, ShareTotal(S \ {r}))

RECURSIVE CountTotal(_)
CountTotal(S) ==
  IF S = {} THEN 0
  ELSE LET r == CHOOSE x \in S : TRUE IN r.count + CountTotal(S \ {r})

IsHundred(r) == r.d # 0 /\ r.n = 100 * r.d

\* The environment is healthy: the file is there and parses, the output
\* directory takes every write.
Healthy ==
  /\ input.exists
  /\ input.ts_ok
  /\ input.dir_ok
  /\ input.disk_full_at = 0

BothGroups == Groups \subseteq {postings[i].experience_group : i \in 1..Len(postings)}

\* C1: for a non-empty input, the shares of each distribution table
\* (agg_country, agg_experience, agg_remote, agg_skills_count_dist) sum to
\* 100, and the counts of agg_skills_count_dist sum to the number of
\* postings.
C1_ShareSumsTo100 ==
  Len(postings) > 0 =>
    /\ \A t \in {"agg_country", "agg_experience", "agg_remote"} :
         Done(t) => IsHundred(ShareTotal(out[t]))
    /\ Done("agg_skills_count_dist") =>
         /\ IsHundred(ShareTotal(Range(out["agg_skills_count_dist"])))
         /\ CountTotal(Range(out["agg_skills_count_dist"])) = Len(postings)

C1_Witness ==
  /\ Done("agg_skills_count_dist")
  /\ Cardinality(out["agg_country"]) = 2
  /\ Cardinality(out["agg_remote"]) = 2
  /\ Len(out["agg_skills_count_dist"]) = 2

\* C2: agg_skills_by_country has one row per (skill column, country in the
\* data), zero counts included; count is the number of postings of the
\* country with the flag set, share is count / postings of the country * 100.
C2_SkillsByCountryCrossProduct ==
  Done("agg_skills_by_country") =>
    LET t == out["agg_skills_by_country"]
        countries == {postings[i].country_name : i \in 1..Len(postings)}
    IN /\ Len(t) = Len(input.skill_columns) * Cardinality(countries)
       /\ \A c \in Range(input.skill_columns), x \in countries :
            LET count == Cardinality(Matching(
                  LAMBDA r : r.country_name = x /\ r.flags[c]))
                total == Cardinality(Matching(LAMBDA r : r.country_name = x))
            IN Cardinality({j \in 1..Len(t) :
                 /\ t[j].skill_name = c
                 /\ t[j].country_name = x}) = 1
               /\ \E j \in 1..Len(t) :
                    /\ t[j].skill_name = c
                    /\ t[j].country_name = x
                    /\ t[j].count = count
                    /\ IsShare(t[j].share, count, total)

C2_Witness ==
  /\ Done("agg_skills_by_country")
  /\ Len(out["agg_skills_by_country"]) = 4
  /\ \E j \in 1..4 : out["agg_skills_by_country"][j].count = 0
  /\ \E j \in 1..4 : out["agg_skills_by_country"][j].count = 1

\* C3: agg_skill_categories has one row for every category with a member
\* skill column in the input, whose count is the number of postings with at
\* least one member flag true, and no row for any other category.
C3_CategoryCountIsOr ==
  Done("agg_skill_categories") =>
    LET t == out["agg_skill_categories"]
    IN \A cat \in DOMAIN SKILL_CATEGORIES :
         LET members == Range(SKILL_CATEGORIES[cat])
                          \cap Range(input.skill_columns)
             rows == {j \in 1..Len(t) : t[j].skill_category = cat}
         IN IF members = {} THEN rows = {}
            ELSE /\ Cardinality(rows) = 1
                 /\ \A j \in rows :
                      t[j].count = Cardinality(Matching(
                        LAMBDA r : \E s \in members : r.flags[s]))

\* A posting with two true flags of Programming, counted once.
C3_Witness ==
  /\ Done("agg_skill_categories")
  /\ input.skill_columns = <<"sql", "python">>
  /\ Len(postings) = 2
  /\ postings[1].flags["sql"] /\ postings[1].flags["python"]
  /\ ~postings[2].flags["sql"] /\ ~postings[2].flags["python"]
  /\ out["agg_skill_categories"][1].count = 1

\* C4: agg_skills_gap has one row per skill column with the shares of the
\* two groups and gap = mid_plus_share - junior_share, and its rows are in
\* descending order of |gap|.
C4_GapSortedByAbs ==
  Done("agg_skills_gap") =>
    LET t == out["agg_skills_gap"]
        InG(g, c) == Cardinality(Matching(
                       LAMBDA r : r.experience_group = g /\ r.flags[c]))
        OfG(g) == Cardinality(Matching(LAMBDA r : r.experience_group = g))
    IN /\ Len(t) = Len(input.skill_columns)
       /\ \A c \in Range(input.skill_columns) :
            \E j \in 1..Len(t) :
              /\ t[j].skill_name = c
              /\ IsShare(t[j].junior_share, InG("junior", c), OfG("junior"))
              /\ IsShare(t[j].mid_plus_share, InG("mid_plus", c),
                         OfG("mid_plus"))
       /\ \A j \in 1..Len(t) :
            /\ t[j].gap.d > 0
            /\ RatEq(t[j].gap, RatSub(t[j].mid_plus_share, t[j].junior_share))
       /\ \A j \in 1..(Len(t) - 1) :
            Abs(t[j].gap.n) * t[j + 1].gap.d
              >= Abs(t[j + 1].gap.n) * t[j].gap.d

\* The second skill column has the larger |gap|, a negative one, and comes
\* first.
C4_Witness ==
  /\ Done("agg_skills_gap")
  /\ Len(out["agg_skills_gap"]) = 2
  /\ out["agg_skills_gap"][1].skill_name = input.skill_columns[2]
  /\ out["agg_skills_gap"][1].gap.n < 0
  /\ out["agg_skills_gap"][2].gap.n = 0

TopSkillsRowsAndOrder ==
  LET t == out["agg_top_skills"]
  IN /\ Len(t) = Len(input.skill_columns)
     /\ \A c \in Range(input.skill_columns) :
          \E j \in 1..Len(t) :
            /\ t[j].skill_name = c
            /\ t[j].count = Cardinality(Matching(LAMBDA r : r.flags[c]))
     /\ \A j \in 1..(Len(t) - 1) : t[j].count >= t[j + 1].count

\* C5 as stated: agg_top_skills has one row per skill column with its
\* count, sorted by count descending, and of two skills with equal count
\* the one whose column comes first in the input comes first.
C5_TopSkillsStable ==
  Done("agg_top_skills") =>
    /\ TopSkillsRowsAndOrder
    /\ \A i, j \in 1..Len(out["agg_top_skills"]) :
         (i < j /\ out["agg_top_skills"][i].count
                     = out["agg_top_skills"][j].count)
           => IndexOf(input.skill_columns, out["agg_top_skills"][i].skill_name)
                < IndexOf(input.skill_columns,
                          out["agg_top_skills"][j].skill_name)

\* C5 amended: agg_top_skills has one row per skill column with its count,
\* sorted by count descending; the order of skills with equal count is not
\* determined.
C5_TopSkillsSorted == Done("agg_top_skills") => TopSkillsRowsAndOrder

\* The second skill column has the larger count and comes first.
C5_Witness ==
  /\ Done("agg_top_skills")
  /\ Len(out["agg_top_skills"]) = 2
  /\ out["agg_top_skills"][1].skill_name = input.skill_columns[2]
  /\ out["agg_top_skills"][1].count = 2
  /\ out["agg_top_skills"][2].count = 1

OptionalFlags ==
  {"is_remote", "is_full_time", "is_part_time", "is_contractor",
   "is_internship"}

\* C6 as stated: with one employment-type flag column missing and nothing
\* else wrong (both experience groups have postings), the run does not fail
\* and ends with all twelve tables written.
C6_OptionalColumnMissing ==
  (/\ Healthy
   /\ \E c \in OptionalFlags : input.columns = AllColumns \ {c}
   /\ input.skill_columns # <<>>
   /\ BothGroups)
    => /\ pc # "failed"
       /\ pc = "done" => written = Tables

\* A table with a share column has a row whose share is NaN.
HasNaN(t) ==
  CASE t \in {"agg_country", "agg_experience", "agg_remote"} ->
         \E r \in out[t] : IsNaN(r.share)
    [] t \in {"agg_top_skills", "agg_skills_by_country",
              "agg_skills_by_experience", "agg_skill_categories",
              "agg_skill_categories_by_experience",
              "agg_skills_count_dist"} ->
         \E j \in 1..Len(out[t]) : IsNaN(out[t][j].share)
    [] OTHER -> FALSE

\* C7 as stated: a run on an empty input (all columns, no posting) does not
\* fail, and no row of a written table has an undefined (NaN) share.
C7_EmptyInputNoFailure ==
  (/\ Healthy
   /\ input.columns = AllColumns
   /\ input.skill_columns # <<>>
   /\ Len(postings) = 0)
    => /\ pc # "failed"
       /\ \A t \in Range(written) : ~HasNaN(t)

\* C8: the tables are written in the order of Tables, one per step: the
\* tables written are always the tables before the current step, a run that
\* has failed has not written all of them and writes no more, a run that
\* ends without failure has written all twelve, and a written table stays
\* as it was written.
C8_WrittenIsPrefix ==
  /\ [](/\ Len(written) <= Len(Tables)
        /\ written = SubSeq(Tables, 1, Len(written))
        /\ pc \in Range(Tables) => Len(written) = IndexOf(Tables, pc) - 1
        /\ pc = "load" => written = <<>>
        /\ pc = "done" => written = Tables
        /\ pc = "failed" => Len(written) < Len(Tables)
        /\ \/ disk = written
           \/ /\ pc = "failed"
              /\ disk = SubSeq(Tables, 1, Len(written) + 1))
  /\ [][/\ pc = "failed" => written' = written
        /\ \A t \in Range(written) : Done(t)' /\ out'[t] = out[t]]_vars

\* A write failed after five tables: they are on disk, with an incomplete
\* sixth file.
C8_Witness ==
  /\ pc = "failed"
  /\ input.disk_full_at = 6
  /\ Len(written) = 5
  /\ Len(disk) = 6

RequiredColumns ==
  {"country_name", "experience_group", "posted_at_datetime_utc"}

\* A required column is absent (the skill columns count as one).
SchemaViolation ==
  /\ input.exists
  /\ \/ \E c \in RequiredColumns : c \notin input.columns
     \/ input.skill_columns = <<>>

\* C9 as stated: with a required column absent the run fails before any
\* table has been written.
C9_SchemaViolationNoOutput ==
  (Healthy /\ SchemaViolation) => pc # "done" /\ written = <<>>

\* The number of tables written before the first use of the absent column.
WrittenBeforeFailure ==
  IF "posted_at_datetime_utc" \notin input.columns THEN 0
  ELSE IF "country_name" \notin input.columns THEN 1
  ELSE IF "experience_group" \notin input.columns THEN 2
  ELSE 4

\* C9 amended: with a required column absent the run never completes; it
\* fails at the first statement that uses the column: before any table for
\* the timestamp column, after fact_job_postings for country_name, after
\* fact_job_postings and agg_country for experience_group, after the first
\* four tables when there is no skill column; the tables written before
\* the failure stay on disk.
C9_SchemaViolationFailsAtFirstUse ==
  (Healthy /\ SchemaViolation) =>
    /\ pc # "done"
    /\ Len(written) <= WrittenBeforeFailure
    /\ pc = "failed" =>
         /\ written = SubSeq(Tables, 1, WrittenBeforeFailure)
         /\ disk = written

C9_Witness ==
  /\ pc = "failed"
  /\ Healthy
  /\ "experience_group" \notin input.columns
  /\ written = <<"fact_job_postings", "agg_country">>
  /\ Len(postings) = 2

\* C10: fact_job_postings has one row per posting, in input order, and the
\* skills_count of a row is the number of true skill flags of its posting.
C10_FactRowsConserved ==
  Done("fact_job_postings") =>
    LET rows == out["fact_job_postings"].rows
    IN /\ Len(rows) = Len(postings)
       /\ \A i \in 1..Len(postings) :
            /\ rows[i].row = i
            /\ rows[i].country_name = postings[i].country_name
            /\ rows[i].experience_group = postings[i].experience_group
            /\ rows[i].is_remote = postings[i].is_remote
            /\ rows[i].skills_count =
                 Cardinality({c \in Range(input.skill_columns) :
                                postings[i].flags[c]})

\* Flags (sql, python) = (T,F), (T,T) give skills_count = 1, 2.
C10_Witness ==
  /\ Done("fact_job_postings")
  /\ input.skill_columns = <<"sql", "python">>
  /\ Len(postings) = 2
  /\ postings[1].flags["sql"] /\ ~postings[1].flags["python"]
  /\ postings[2].flags["sql"] /\ postings[2].flags["python"]
  /\ postings[1].country_name # postings[2].country_name
  /\ out["fact_job_postings"].rows[1].skills_count = 1
  /\ out["fact_job_postings"].rows[2].skills_count = 2

====
